---- MODULE Spec2Model ----
(***************************************************************************)
(* Model of hrv/data.py: the format detector (load, load_rr), the FIT      *)
(* message normalizer (load_fit), the HRMonitorApp text normalizer         *)
(* (load_hrmonitorapp and its parsers) and the RR-interval extractor.      *)
(*                                                                         *)
(* Python strings that the code takes apart (paths, lines of the text      *)
(* export) are sequences of one-character strings, so that len, split,     *)
(* strip, lower, startswith, int and float are computed, not assumed.      *)
(* Python's None is the empty tuple and any other value v is <<v>>.        *)
(***************************************************************************)
EXTENDS Integers, Sequences, FiniteSets, TLC

VARIABLES
  api,     \* the function called: "load" or "load_rr"
  path,    \* its argument
  pc,      \* where the call is: "call", a step of a normalizer, "returned", "raised"
  called,  \* the functions the dispatch has invoked
  fit,     \* the locals of load_fit
  hrm,     \* the locals of load_hrmonitorapp and the position of its file iterator
  rr,      \* what load_rr read from its file
  ret,     \* the value returned, None before the return
  exc      \* the exception raised, None if none

vars == <<api, path, pc, called, fit, hrm, rr, ret, exc>>

None == <<>>

Some(v) == <<v>>

(***************************************************************************)
(* str                                                                     *)
(***************************************************************************)
UpperCase == (* "ABCDEFGHIJKLMNOPQRSTUVWXYZ" *) <<"A", "B", "C", "D", "E", "F", "G", "H", "I", "J", "K", "L", "M", "N", "O", "P", "Q", "R", "S", "T", "U", "V", "W", "X", "Y", "Z">>

LowerCase == (* "abcdefghijklmnopqrstuvwxyz" *) <<"a", "b", "c", "d", "e", "f", "g", "h", "i", "j", "k", "l", "m", "n", "o", "p", "q", "r", "s", "t", "u", "v", "w", "x", "y", "z">>

Digits == (* "0123456789" *) <<"0", "1", "2", "3", "4", "5", "6", "7", "8", "9">>

Whitespace == {" ", "\t"}

Range(s) == {s[i] : i \in DOMAIN s}

LowerChar(c) ==
  IF c \in Range(UpperCase)
  THEN LowerCase[CHOOSE i \in DOMAIN UpperCase : UpperCase[i] = c]
  ELSE c

\* str.lower()
Lower(s) == [i \in DOMAIN s |-> LowerChar(s[i])]

\* str.startswith(prefix)
StartsWith(s, prefix) ==
  /\ Len(s) >= Len(prefix)
  /\ SubSeq(s, 1, Len(prefix)) = prefix

\* str.rfind(c) as a 1-based index, 0 when c does not occur
RFind(s, c) ==
  IF c \in Range(s)
  THEN CHOOSE i \in DOMAIN s : s[i] = c /\ \A j \in (i + 1)..Len(s) : s[j] # c
  ELSE 0

\* str.find(c) as a 1-based index, 0 when c does not occur
Find(s, c) ==
  IF c \in Range(s)
  THEN CHOOSE i \in DOMAIN s : s[i] = c /\ \A j \in 1..(i - 1) : s[j] # c
  ELSE 0

\* str.split(sep) for a one-character separator
RECURSIVE Split(_, _)
Split(s, sep) ==
  LET i == Find(s, sep)
  IN  IF i = 0
      THEN <<s>>
      ELSE <<SubSeq(s, 1, i - 1)>> \o Split(SubSeq(s, i + 1, Len(s)), sep)

\* str.strip()
RECURSIVE Strip(_)
Strip(s) ==
  IF s = <<>> THEN s
  ELSE IF s[1] \in Whitespace THEN Strip(Tail(s))
  ELSE IF s[Len(s)] \in Whitespace THEN Strip(SubSeq(s, 1, Len(s) - 1))
  ELSE s

DigitValue(c) == (CHOOSE i \in DOMAIN Digits : Digits[i] = c) - 1

IsDigits(s) == s # <<>> /\ \A i \in DOMAIN s : s[i] \in Range(Digits)

RECURSIVE DigitsValue(_)
DigitsValue(s) ==
  IF s = <<>> THEN 0
  ELSE 10 * DigitsValue(SubSeq(s, 1, Len(s) - 1)) + DigitValue(s[Len(s)])

(***************************************************************************)
(* pathlib.PurePath.name and .suffix                                       *)
(***************************************************************************)
\* the final path component
PathName(p) == SubSeq(p, RFind(p, "/") + 1, Len(p))

\* the final component's last dot and what follows it; empty when the
\* component has no dot, starts with its only dot or ends with a dot
PathSuffix(p) ==
  LET name == PathName(p)
      i == RFind(name, ".")
  IN  IF 1 < i /\ i < Len(name) THEN SubSeq(name, i, Len(name)) ELSE <<>>

\* The paths a caller may pass.
Paths ==
  { (* "a.fit" *) <<"a", ".", "f", "i", "t">>, (* "run/B.FiT" *) <<"r", "u", "n", "/", "B", ".", "F", "i", "T">>,
    (* "user_hr_data_1.csv" *) <<"u", "s", "e", "r", "_", "h", "r", "_", "d", "a", "t", "a", "_", "1", ".", "c", "s", "v">>, (* "user_hr_data_2.CSV" *) <<"u", "s", "e", "r", "_", "h", "r", "_", "d", "a", "t", "a", "_", "2", ".", "C", "S", "V">>,
    (* "rr.csv" *) <<"r", "r", ".", "c", "s", "v">>, (* "User_hr_data_1.csv" *) <<"U", "s", "e", "r", "_", "h", "r", "_", "d", "a", "t", "a", "_", "1", ".", "c", "s", "v">>, (* "user_hr_data_/a.csv" *) <<"u", "s", "e", "r", "_", "h", "r", "_", "d", "a", "t", "a", "_", "/", "a", ".", "c", "s", "v">>,
    (* "user_hr_data_1.txt" *) <<"u", "s", "e", "r", "_", "h", "r", "_", "d", "a", "t", "a", "_", "1", ".", "t", "x", "t">>, (* "notes.fit.txt" *) <<"n", "o", "t", "e", "s", ".", "f", "i", "t", ".", "t", "x", "t">>, (* ".fit" *) <<".", "f", "i", "t">>, (* "fit" *) <<"f", "i", "t">>, (* "x.csv.gz" *) <<"x", ".", "c", "s", "v", ".", "g", "z">> }

\* the canonical activity-metadata schema
ACTIVITY_SCHEMA ==
  [file_hash |-> None, name |-> None, sport |-> None, sub_sport |-> None,
   workout |-> None, device_manufacturer |-> None, device_model |-> None,
   datetime_start |-> None, datetime_end |-> None, duration |-> None,
   distance |-> None, heartrate_mean |-> None, heartrate_median |-> None]

(***************************************************************************)
(* load: the format detector                                               *)
(***************************************************************************)
\* _is_hrmonitorapp_activity without its name-prefix test
IsCsvAnyName(p) == Lower(PathSuffix(p)) = (* ".csv" *) <<".", "c", "s", "v">>

_is_hrmonitorapp_activity(p) ==
  /\ Lower(PathSuffix(p)) = (* ".csv" *) <<".", "c", "s", "v">>
  /\ StartsWith(PathName(p), (* "user_hr_data_" *) <<"u", "s", "e", "r", "_", "h", "r", "_", "d", "a", "t", "a", "_">>)

Raise(type, what) == Some([type |-> type, what |-> what])


(***************************************************************************)
(* The decoded FIT message stream (fitparse.FitFile), as the decoder hands *)
(* it over: messages with a type name and named field values.              *)
(***************************************************************************)
MaxRecords == 2

MaxEvents == 2

\* a message: its type name and its field data in the order of the message
Message(name, fields) == [name |-> name, fields |-> fields]

FieldData(name, value) == [name |-> name, value |-> value]

SeqsUpTo(S, n) == UNION {[1..k -> S] : k \in 0..n}

\* a file_id message; products holds the value of its garmin_product field,
\* if it has one
FileId(manufacturer, products) ==
  Message("file_id",
          <<FieldData("manufacturer", manufacturer)>>
            \o [i \in DOMAIN products |-> FieldData("garmin_product", products[i])])

\* file_id messages: none, garmin with and without its product field, another
\* manufacturer with and without a product field, and two messages
FileIdParts ==
  { <<>>,
    <<FileId("garmin", <<"fr935">>)>>,
    <<FileId("garmin", <<>>)>>,
    <<FileId("suunto", <<>>)>>,
    <<FileId("suunto", <<"edge">>)>>,
    <<FileId("suunto", <<>>), FileId("garmin", <<"fr935">>)>> }

SportParts ==
  { <<>>,
    <<Message("sport", <<FieldData("name", "Run"), FieldData("sport", "running"),
                         FieldData("sub_sport", "trail")>>)>> }

EventKinds ==
  { <<"timer", "start">>, <<"timer", "stop_all">>, <<"timer", "stop">>,
    <<"session", "start">> }

\* the i-th event message carries the timestamp 1000 + i
EventParts ==
  { [i \in DOMAIN ks |->
       Message("event", <<FieldData("timestamp", 1000 + i),
                          FieldData("event", ks[i][1]),
                          FieldData("event_type", ks[i][2])>>)]
    : ks \in SeqsUpTo(EventKinds, MaxEvents) }

RecordKinds == {"thd", "td", "th"}

\* the i-th record message: sampled at second 3 * i, heart rate and distance
\* present as its kind says
RecordFields(kind, i) ==
  LET timestamp == FieldData("timestamp", 3 * i)
      heart_rate == FieldData("heart_rate", 60 + 5 * i)
      distance == FieldData("distance", 10 * i)
  IN  CASE kind = "thd" -> <<timestamp, heart_rate, distance>>
        [] kind = "td" -> <<timestamp, distance>>
        [] kind = "th" -> <<timestamp, heart_rate>>

RecordParts ==
  { [i \in DOMAIN ks |-> Message("record", RecordFields(ks[i], i))]
    : ks \in SeqsUpTo(RecordKinds, MaxRecords) }

FitStreams ==
  { f \o s \o e \o r :
      f \in FileIdParts, s \in SportParts, e \in EventParts, r \in RecordParts }

(***************************************************************************)
(* load_fit                                                                *)
(***************************************************************************)
NaN == <<>>

MessageTypes(messages) == {messages[i].name : i \in DOMAIN messages}

\* {data.name: data.value for data in message}
ToDict(fields) ==
  [n \in {fields[i].name : i \in DOMAIN fields} |->
     fields[CHOOSE i \in DOMAIN fields :
              fields[i].name = n /\ \A j \in (i + 1)..Len(fields) : fields[j].name # n].value]

\* fit_data.get_messages(message_type), each message as {name: value}
GetMessages(messages, message_type) ==
  LET OfType(m) == m.name = message_type
      found == SelectSeq(messages, OfType)
  IN  [i \in DOMAIN found |-> ToDict(found[i].fields)]

GroupByType(messages) ==
  [t \in MessageTypes(messages) |-> GetMessages(messages, t)]

\* data[key] of the collections.defaultdict(list)
DataGet(data, key) == IF key \in DOMAIN data THEN data[key] ELSE <<>>

\* pd.DataFrame.from_records(rows): one column per field name seen in any
\* row, one entry per row, NaN where the row has no such field
Columns(rows) == UNION {DOMAIN rows[i] : i \in DOMAIN rows}

\* a table whose columns hold only the values present, without NaN padding
RecordingsUnpadded(rows) ==
  [column \in Columns(rows) |->
     LET Has(row) == column \in DOMAIN row
         having == SelectSeq(rows, Has)
     IN  [i \in DOMAIN having |-> Some(having[i][column])]]

Recordings(rows) ==
  [column \in Columns(rows) |->
     [i \in DOMAIN rows |->
        IF column \in DOMAIN rows[i] THEN Some(rows[i][column]) ELSE NaN]]

\* device_model taken from garmin_product whatever the manufacturer
DeviceModelAnyManufacturer(data_file_id) ==
  IF "garmin_product" \in DOMAIN data_file_id
  THEN [ok |-> TRUE, value |-> Some(data_file_id.garmin_product)]
  ELSE [ok |-> data_file_id.manufacturer # "garmin", value |-> None]

\* lines 76-78: device_model of the first file_id message; not ok when the
\* garmin_product lookup raises KeyError
DeviceModel(data_file_id) ==
  IF data_file_id.manufacturer = "garmin"
  THEN IF "garmin_product" \in DOMAIN data_file_id
       THEN [ok |-> TRUE, value |-> Some(data_file_id.garmin_product)]
       ELSE [ok |-> FALSE, value |-> None]
  ELSE [ok |-> TRUE, value |-> None]

\* a scan step that keeps a value once it is set
ScanEventKeepFirst(datetime_start, datetime_end, data_event) ==
  IF ~(data_event.event = "timer")
  THEN <<datetime_start, datetime_end>>
  ELSE IF data_event.event_type = "start"
  THEN <<IF datetime_start = None THEN Some(data_event.timestamp) ELSE datetime_start,
         datetime_end>>
  ELSE IF data_event.event_type = "stop_all"
  THEN <<datetime_start,
         IF datetime_end = None THEN Some(data_event.timestamp) ELSE datetime_end>>
  ELSE <<datetime_start, datetime_end>>

\* lines 83-88: one iteration of the scan over the event messages: the new
\* (datetime_start, datetime_end)
ScanEvent(datetime_start, datetime_end, data_event) ==
  IF ~(data_event.event = "timer")
  THEN <<datetime_start, datetime_end>>
  ELSE IF data_event.event_type = "start"
  THEN <<Some(data_event.timestamp), datetime_end>>
  ELSE IF data_event.event_type = "stop_all"
  THEN <<datetime_start, Some(data_event.timestamp)>>
  ELSE <<datetime_start, datetime_end>>

\* the samples of a channel that are not NaN
NotNaN(series) ==
  LET Present(x) == x # NaN
      kept == SelectSeq(series, Present)
  IN  [i \in DOMAIN kept |-> kept[i][1]]

RECURSIVE Sum(_)
Sum(s) == IF s = <<>> THEN 0 ELSE s[1] + Sum(Tail(s))

\* the sorted permutation of a sequence of integers
Sorted(s) ==
  CHOOSE t \in [DOMAIN s -> Range(s)] :
    /\ \A i, j \in DOMAIN t : i < j => t[i] <= t[j]
    /\ \A v \in Range(s) :
         Cardinality({i \in DOMAIN s : s[i] = v}) = Cardinality({i \in DOMAIN t : t[i] = v})

\* int(np.nanmean(heartrate)) for non-negative samples, of a channel with at
\* least one sample (a channel exists only if a record message has the field)
NanMeanInt(series) == LET xs == NotNaN(series) IN Sum(xs) \div Len(xs)

\* int(np.nanmedian(heartrate)) for non-negative samples
NanMedianInt(series) ==
  LET xs == Sorted(NotNaN(series))
      n == Len(xs)
  IN  IF n % 2 = 1 THEN xs[(n + 1) \div 2]
      ELSE (xs[n \div 2] + xs[n \div 2 + 1]) \div 2

\* lines 98-104: the whole seconds between the first and the last timestamp
Duration(timestamps) == timestamps[Len(timestamps)][1] - timestamps[1][1]

\* a summary that leaves duration and distance empty when their channel is
\* missing
FitSummaryLenient(recordings) ==
  [ok |-> TRUE, error |-> "none",
   duration |-> IF "timestamp" \in DOMAIN recordings
                THEN Some(Duration(recordings["timestamp"])) ELSE None,
   distance |-> IF "distance" \in DOMAIN recordings
                THEN Some(recordings["distance"][Len(recordings["distance"])]) ELSE None]

\* lines 98-105: duration and distance, or the key whose lookup in the
\* recordings raises KeyError
FitSummary(recordings) ==
  IF "timestamp" \notin DOMAIN recordings
  THEN [ok |-> FALSE, error |-> "timestamp", duration |-> None, distance |-> None]
  ELSE IF "distance" \notin DOMAIN recordings
  THEN [ok |-> FALSE, error |-> "distance", duration |-> None, distance |-> None]
  ELSE [ok |-> TRUE, error |-> "none",
        duration |-> Some(Duration(recordings["timestamp"])),
        distance |-> Some(recordings["distance"][Len(recordings["distance"])])]

\* lines 107-123: the mapping load_fit returns
FitData(f, duration, distance) ==
  [device_manufacturer |-> f.device_manufacturer,
   device_model |-> f.device_model,
   datetime_start |-> f.datetime_start,
   datetime_end |-> f.datetime_end,
   name |-> f.name,
   sport |-> f.sport,
   sub_sport |-> f.sub_sport,
   duration |-> duration,
   distance |-> distance,
   heartrate_mean |-> f.heartrate_mean,
   heartrate_median |-> f.heartrate_median]

FitInit ==
  [messages |-> <<>>, data |-> <<>>, recordings |-> <<>>,
   name |-> None, sport |-> None, sub_sport |-> None,
   device_manufacturer |-> None, device_model |-> None,
   datetime_start |-> None, datetime_end |-> None, i |-> 0,
   heartrate_mean |-> None, heartrate_median |-> None]

(***************************************************************************)
(* The HRMonitorApp text export: a file is a sequence of lines.            *)
(***************************************************************************)
MaxRows == 2

\* the values of the Duration key
DurationPool ==
  { (* "01:30:00" *) <<"0", "1", ":", "3", "0", ":", "0", "0">>, (* "1:2:3" *) <<"1", ":", "2", ":", "3">>, (* "90:00" *) <<"9", "0", ":", "0", "0">>, (* "1:2:3333" *) <<"1", ":", "2", ":", "3", "3", "3", "3">>, (* "001:2:3" *) <<"0", "0", "1", ":", "2", ":", "3">>,
    (* "0:1:2:03" *) <<"0", ":", "1", ":", "2", ":", "0", "3">>, (* "01:30:0a" *) <<"0", "1", ":", "3", "0", ":", "0", "a">>, (* "01::3000" *) <<"0", "1", ":", ":", "3", "0", "0", "0">> }

StatsLines(date, start, duration) ==
  << (* "{Statistics}" *) <<"{", "S", "t", "a", "t", "i", "s", "t", "i", "c", "s", "}">>, (* "Date," *) <<"D", "a", "t", "e", ",">> \o date, (* "Start," *) <<"S", "t", "a", "r", "t", ",">> \o start,
     (* "Duration," *) <<"D", "u", "r", "a", "t", "i", "o", "n", ",">> \o duration, (* "Max,171" *) <<"M", "a", "x", ",", "1", "7", "1">>, <<>> >>

\* no {Statistics} section; one per duration; a date and a start time of the
\* wrong shape; an impossible date; a section without its Start key
StatsParts ==
  { <<>> }
    \cup { StatsLines((* "01/02/23" *) <<"0", "1", "/", "0", "2", "/", "2", "3">>, (* "10:00:00" *) <<"1", "0", ":", "0", "0", ":", "0", "0">>, d) : d \in DurationPool }
    \cup { StatsLines((* "1/2/23" *) <<"1", "/", "2", "/", "2", "3">>, (* "10:00:00" *) <<"1", "0", ":", "0", "0", ":", "0", "0">>, (* "01:30:00" *) <<"0", "1", ":", "3", "0", ":", "0", "0">>),
           StatsLines((* "01/02/23" *) <<"0", "1", "/", "0", "2", "/", "2", "3">>, (* "10:00" *) <<"1", "0", ":", "0", "0">>, (* "01:30:00" *) <<"0", "1", ":", "3", "0", ":", "0", "0">>),
           StatsLines((* "02/30/23" *) <<"0", "2", "/", "3", "0", "/", "2", "3">>, (* "10:00:00" *) <<"1", "0", ":", "0", "0", ":", "0", "0">>, (* "01:30:00" *) <<"0", "1", ":", "3", "0", ":", "0", "0">>),
           StatsLines((* "12/31/23" *) <<"1", "2", "/", "3", "1", "/", "2", "3">>, (* "23:59:59" *) <<"2", "3", ":", "5", "9", ":", "5", "9">>, (* "01:30:00" *) <<"0", "1", ":", "3", "0", ":", "0", "0">>),
           << (* "{Statistics} " *) <<"{", "S", "t", "a", "t", "i", "s", "t", "i", "c", "s", "}", " ">>, (* "Date,01/02/23" *) <<"D", "a", "t", "e", ",", "0", "1", "/", "0", "2", "/", "2", "3">>, (* "Duration,01:30:00" *) <<"D", "u", "r", "a", "t", "i", "o", "n", ",", "0", "1", ":", "3", "0", ":", "0", "0">>, <<>> >> }

HistoryHeaders == { (* "SEC,HR_BPM" *) <<"S", "E", "C", ",", "H", "R", "_", "B", "P", "M">>, (* "SEC,HR_BPM,ALT" *) <<"S", "E", "C", ",", "H", "R", "_", "B", "P", "M", ",", "A", "L", "T">>, (* "sec" *) <<"s", "e", "c">> }

HistoryRows == { (* "1,60" *) <<"1", ",", "6", "0">>, (* "2,61,5" *) <<"2", ",", "6", "1", ",", "5">>, (* "3" *) <<"3">>, (* "x,1" *) <<"x", ",", "1">> }

\* no {History} section; a section without any line; a header row and up to
\* MaxRows data rows, ended by the end of the file
HistoryParts ==
  { <<>>, << (* "{History}" *) <<"{", "H", "i", "s", "t", "o", "r", "y", "}">> >> }
    \cup { << (* "{History}" *) <<"{", "H", "i", "s", "t", "o", "r", "y", "}">>, h >> \o rows :
             h \in HistoryHeaders, rows \in SeqsUpTo(HistoryRows, MaxRows) }

HrmFiles ==
  { << (* "HRMonitorApp" *) <<"H", "R", "M", "o", "n", "i", "t", "o", "r", "A", "p", "p">>, <<>> >> \o st \o hi : st \in StatsParts, hi \in HistoryParts }

(***************************************************************************)
(* load_hrmonitorapp and its parsers                                       *)
(***************************************************************************)
Ok(value) == [ok |-> TRUE, value |-> value, error |-> "none"]

Fail(error) == [ok |-> FALSE, value |-> None, error |-> error]

\* int(x), float(x) for text over digits and letters
ParseNumber(x) == IF IsDigits(x) THEN Ok(DigitsValue(x)) ELSE Fail("ValueError")

IsLeap(year) == (year % 4 = 0 /\ year % 100 # 0) \/ year % 400 = 0

DaysInMonth(year, month) ==
  IF month = 2 THEN (IF IsLeap(year) THEN 29 ELSE 28)
  ELSE IF month \in {4, 6, 9, 11} THEN 30 ELSE 31

NextDay(d) ==
  IF d.day < DaysInMonth(d.year, d.month) THEN [d EXCEPT !.day = d.day + 1]
  ELSE IF d.month < 12 THEN [d EXCEPT !.day = 1, !.month = d.month + 1]
  ELSE [d EXCEPT !.day = 1, !.month = 1, !.year = d.year + 1]

RECURSIVE AddDays(_, _)
AddDays(d, n) == IF n = 0 THEN d ELSE AddDays(NextDay(d), n - 1)

\* datetime + datetime.timedelta(seconds=seconds), seconds >= 0
AddSeconds(d, seconds) ==
  LET total == d.second + seconds
  IN  [AddDays(d, total \div 86400) EXCEPT !.second = total % 86400]

\* datetime.datetime.fromisoformat("20yy-mm-dd HH:MM:SS"); second counts
\* from midnight
FromIsoFormat(yy, mm, dd, time_parts) ==
  LET TwoDigits(x) == Len(x) = 2 /\ IsDigits(x)
  IN  IF ~(TwoDigits(yy) /\ TwoDigits(mm) /\ TwoDigits(dd)
           /\ Len(time_parts) = 3 /\ \A i \in DOMAIN time_parts : TwoDigits(time_parts[i]))
      THEN Fail("ValueError")
      ELSE LET year == 2000 + DigitsValue(yy)
               month == DigitsValue(mm)
               day == DigitsValue(dd)
               h == DigitsValue(time_parts[1])
               m == DigitsValue(time_parts[2])
               sec == DigitsValue(time_parts[3])
           IN  IF /\ month \in 1..12
                  /\ day \in 1..DaysInMonth(year, month)
                  /\ h < 24 /\ m < 60 /\ sec < 60
               THEN Ok([year |-> year, month |-> month, day |-> day,
                        second |-> h * 3600 + m * 60 + sec])
               ELSE Fail("ValueError")

_hrmonitorapp_date_time_to_datetime(date, time_) ==
  IF ~(Len(date) = 8 /\ Len(Split(date, "/")) = 3) THEN Fail("AssertionError")
  ELSE IF ~(Len(time_) = 8 /\ Len(Split(time_, ":")) = 3) THEN Fail("AssertionError")
  ELSE LET parts == Split(date, "/")
       IN  FromIsoFormat(parts[3], parts[1], parts[2], Split(time_, ":"))

\* the conversion without the test of the text's length
DurationToSecondsAnyLength(duration) ==
  IF ~(Len(Split(duration, ":")) = 3) THEN Fail("AssertionError")
  ELSE LET parts == Split(duration, ":")
           hh == ParseNumber(parts[1])
           mm == ParseNumber(parts[2])
           ss == ParseNumber(parts[3])
       IN  IF hh.ok /\ mm.ok /\ ss.ok
           THEN Ok(hh.value * 3600 + mm.value * 60 + ss.value)
           ELSE Fail("ValueError")

_hrmonitorapp_duration_to_seconds(duration) ==
  IF ~(Len(duration) = 8 /\ Len(Split(duration, ":")) = 3) THEN Fail("AssertionError")
  ELSE LET parts == Split(duration, ":")
           hh == ParseNumber(parts[1])
           mm == ParseNumber(parts[2])
           ss == ParseNumber(parts[3])
       IN  IF hh.ok /\ mm.ok /\ ss.ok
           THEN Ok(hh.value * 3600 + mm.value * 60 + ss.value)
           ELSE Fail("ValueError")

\* dict(pairs)[key]: the value of the last pair with that key
HasKey(pairs, key) == \E i \in DOMAIN pairs : pairs[i][1] = key

DictGet(pairs, key) ==
  pairs[CHOOSE i \in DOMAIN pairs :
          pairs[i][1] = key /\ \A j \in (i + 1)..Len(pairs) : pairs[j][1] # key][2]

_hrmonitorapp_parse_stats(lines) ==
  LET split == [i \in DOMAIN lines |-> Split(lines[i], ",")]
  IN  IF \E i \in DOMAIN split : Len(split[i]) < 2 THEN Fail("IndexError")
      ELSE LET pairs == [i \in DOMAIN split |-> <<Lower(split[i][1]), split[i][2]>>]
           IN  IF ~(HasKey(pairs, (* "date" *) <<"d", "a", "t", "e">>) /\ HasKey(pairs, (* "start" *) <<"s", "t", "a", "r", "t">>)
                    /\ HasKey(pairs, (* "duration" *) <<"d", "u", "r", "a", "t", "i", "o", "n">>))
               THEN Fail("KeyError")
               ELSE LET datetime_start ==
                          _hrmonitorapp_date_time_to_datetime(
                            DictGet(pairs, (* "date" *) <<"d", "a", "t", "e">>), DictGet(pairs, (* "start" *) <<"s", "t", "a", "r", "t">>))
                        duration ==
                          _hrmonitorapp_duration_to_seconds(DictGet(pairs, (* "duration" *) <<"d", "u", "r", "a", "t", "i", "o", "n">>))
                    IN  IF ~datetime_start.ok THEN Fail(datetime_start.error)
                        ELSE IF ~duration.ok THEN Fail(duration.error)
                        ELSE Ok([datetime_start |-> Some(datetime_start.value),
                                 datetime_end |->
                                   Some(AddSeconds(datetime_start.value, duration.value)),
                                 duration |-> Some(duration.value)])

\* The lines from position pos up to a blank line or the end of the file,
\* stripped, and the position after the line that ended them.
RECURSIVE _get_lines_until_blank(_, _)
_get_lines_until_blank(file_, pos) ==
  IF pos > Len(file_) THEN [lines |-> <<>>, pos |-> pos]
  ELSE LET line == Strip(file_[pos])
       IN  IF line = <<>> THEN [lines |-> <<>>, pos |-> pos + 1]
           ELSE LET rest == _get_lines_until_blank(file_, pos + 1)
                IN  [lines |-> <<line>> \o rest.lines, pos |-> rest.pos]

Rename(header) ==
  IF header = (* "sec" *) <<"s", "e", "c">> THEN (* "timestamp" *) <<"t", "i", "m", "e", "s", "t", "a", "m", "p">>
  ELSE IF header = (* "hr_bpm" *) <<"h", "r", "_", "b", "p", "m">> THEN (* "heart_rate" *) <<"h", "e", "a", "r", "t", "_", "r", "a", "t", "e">>
  ELSE header

Min(a, b) == IF a < b THEN a ELSE b

\* {header: series for header, series in zip(headers, values)}: the pairs
\* stop at the shorter of the two, a repeated header keeps its last series
ZipDict(headers, series) ==
  LET n == Min(Len(headers), Len(series))
  IN  [h \in {headers[j] : j \in 1..n} |->
         series[CHOOSE j \in 1..n :
                  headers[j] = h /\ \A k \in (j + 1)..n : headers[k] # h]]

_hrmonitorapp_parse_recordings(lines_recordings) ==
  LET tokens == [i \in DOMAIN lines_recordings |-> Split(lines_recordings[i], ",")]
  IN  IF tokens = <<>> THEN Fail("IndexError")
      ELSE LET headers == [j \in DOMAIN tokens[1] |-> Rename(Lower(tokens[1][j]))]
               values == Tail(tokens)
           IN  IF values = <<>> THEN Ok(ZipDict(headers, <<>>))
               ELSE IF \E i \in DOMAIN values : Len(values[i]) # Len(values[1])
               THEN Fail("ValueError")
               ELSE IF \E i \in DOMAIN values : \E j \in DOMAIN values[i] :
                         ~ParseNumber(values[i][j]).ok
               THEN Fail("ValueError")
               ELSE LET transposed ==
                          [j \in DOMAIN values[1] |->
                             [i \in DOMAIN values |-> ParseNumber(values[i][j]).value]]
                    IN  Ok(ZipDict(headers, transposed))

\* lines 237-256: the mapping load_hrmonitorapp starts from
HrmData ==
  [file_hash |-> None, name |-> None, sport |-> None, sub_sport |-> None,
   workout |-> None, device_manufacturer |-> None, device_model |-> None,
   datetime_start |-> None, datetime_end |-> None, duration |-> None,
   distance |-> None, heartrate_mean |-> None, heartrate_median |-> None]

\* data.update(stats)
Update(data, stats) ==
  [k \in DOMAIN data \cup DOMAIN stats |->
     IF k \in DOMAIN stats THEN stats[k] ELSE data[k]]

HrmInit ==
  [file_ |-> <<>>, pos |-> 0, data |-> <<>>, recordings |-> <<>>, bound |-> FALSE]

(***************************************************************************)
(* load_rr: the RR-interval extractor                                      *)
(***************************************************************************)
MaxHrv == 2

\* the value of an hrv message's time field: an array of readings, None
\* where the device recorded no interval
HrvTimes ==
  { <<None, None>>, <<Some(1), None>>, <<Some(1), Some(2)>>,
    <<None, Some(2)>>, <<Some(2), Some(1)>> }

\* hrv messages with one array field and with two, and a message of another
\* type in between
HrvKinds ==
  { Message("hrv", <<FieldData("time", t)>>) : t \in HrvTimes }
    \cup { Message("hrv", <<FieldData("time", <<Some(2), None>>),
                            FieldData("time", <<None, Some(1)>>)>>),
           Message("record", <<FieldData("timestamp", <<Some(9), None>>)>>) }

HrvStreams == SeqsUpTo(HrvKinds, MaxHrv)

\* the intervals of a plain text file, in milliseconds
CsvFiles == { <<800>>, <<800, 750>>, <<1000, 0, 1250>> }

RECURSIVE Concat(_)
Concat(ss) == IF ss = <<>> THEN <<>> ELSE ss[1] \o Concat(Tail(ss))

\* lines 140-145: record_data.value for record in records for record_data
\* in record
FieldValues(messages) ==
  LET OfType(m) == m.name = "hrv"
      records == SelectSeq(messages, OfType)
  IN  Concat([i \in DOMAIN records |->
                [j \in DOMAIN records[i].fields |-> records[i].fields[j].value]])

\* the flattened readings with the None entries left in
LoadRRKeepNone(messages) == Concat(FieldValues(messages))

\* lines 146-148: np.array(...).flatten() of equally long arrays, then the
\* entries that are not None
load_rr_from_fit(messages) ==
  LET NotNone(x) == x # None
  IN  SelectSeq(Concat(FieldValues(messages)), NotNone)

\* lines 160-162: milliseconds / 1000, kept as a fraction
load_rr_from_csv(values) ==
  [i \in DOMAIN values |-> [numerator |-> values[i], denominator |-> 1000]]

RRInit == [messages |-> <<>>, values |-> <<>>]

\* a call of load or of load_rr on one of the paths
Init ==
  /\ api \in {"load", "load_rr"}
  /\ path \in Paths
  /\ pc = "call"
  /\ called = <<>>
  /\ fit = FitInit
  /\ hrm = HrmInit
  /\ rr = RRInit
  /\ ret = None
  /\ exc = None

\* lines 40-46
Load ==
  /\ pc = "call"
  /\ api = "load"
  /\ IF Lower(PathSuffix(path)) = (* ".fit" *) <<".", "f", "i", "t">>
     THEN /\ pc' = "load_fit"
          /\ called' = Append(called, "load_fit")
          /\ exc' = exc
     ELSE IF _is_hrmonitorapp_activity(path)
     THEN /\ pc' = "load_hrmonitorapp"
          /\ called' = Append(called, "load_hrmonitorapp")
          /\ exc' = exc
     ELSE /\ pc' = "raised"
          /\ called' = called
          /\ exc' = Raise("ValueError", "unsupported activity file format")
  /\ UNCHANGED <<api, path, fit, hrm, rr, ret>>

\* lines 50-67: decode the file, group the messages by type, build the table
FitDecode ==
  /\ pc = "load_fit"
  /\ \E messages \in FitStreams :
       LET data == GroupByType(messages)
       IN  fit' = [fit EXCEPT !.messages = messages,
                              !.data = data,
                              !.recordings = Recordings(DataGet(data, "record"))]
  /\ pc' = "fit_sport"
  /\ UNCHANGED <<api, path, called, hrm, rr, ret, exc>>

\* lines 69-72
FitSport ==
  /\ pc = "fit_sport"
  /\ LET sports == DataGet(fit.data, "sport")
     IN  IF sports = <<>>
         THEN /\ pc' = "raised"
              /\ exc' = Raise("IndexError", "sport")
              /\ fit' = fit
         ELSE IF ~({"name", "sport", "sub_sport"} \subseteq DOMAIN sports[1])
         THEN /\ pc' = "raised"
              /\ exc' = Raise("KeyError", "sport")
              /\ fit' = fit
         ELSE /\ pc' = "fit_file_id"
              /\ exc' = exc
              /\ fit' = [fit EXCEPT !.name = Some(sports[1].name),
                                     !.sport = Some(sports[1].sport),
                                     !.sub_sport = Some(sports[1].sub_sport)]
  /\ UNCHANGED <<api, path, called, hrm, rr, ret>>

\* lines 74-78
FitFileId ==
  /\ pc = "fit_file_id"
  /\ LET file_ids == DataGet(fit.data, "file_id")
     IN  IF file_ids = <<>>
         THEN /\ pc' = "raised"
              /\ exc' = Raise("IndexError", "file_id")
              /\ fit' = fit
         ELSE IF "manufacturer" \notin DOMAIN file_ids[1]
         THEN /\ pc' = "raised"
              /\ exc' = Raise("KeyError", "manufacturer")
              /\ fit' = fit
         ELSE IF ~DeviceModel(file_ids[1]).ok
         THEN /\ pc' = "raised"
              /\ exc' = Raise("KeyError", "garmin_product")
              /\ fit' = fit
         ELSE /\ pc' = "fit_events"
              /\ exc' = exc
              /\ fit' = [fit EXCEPT
                           !.device_manufacturer = Some(file_ids[1].manufacturer),
                           !.device_model = DeviceModel(file_ids[1]).value,
                           !.i = 1]
  /\ UNCHANGED <<api, path, called, hrm, rr, ret>>

\* lines 82-88: one iteration of the loop over data["event"]
FitEvent ==
  /\ pc = "fit_events"
  /\ fit.i <= Len(DataGet(fit.data, "event"))
  /\ LET data_event == DataGet(fit.data, "event")[fit.i]
     IN  IF ~({"event", "event_type", "timestamp"} \subseteq DOMAIN data_event)
         THEN /\ pc' = "raised"
              /\ exc' = Raise("KeyError", "event")
              /\ fit' = fit
         ELSE LET new == ScanEvent(fit.datetime_start, fit.datetime_end, data_event)
              IN  /\ pc' = pc
                  /\ exc' = exc
                  /\ fit' = [fit EXCEPT !.datetime_start = new[1],
                                         !.datetime_end = new[2],
                                         !.i = fit.i + 1]
  /\ UNCHANGED <<api, path, called, hrm, rr, ret>>

\* lines 90-96, once the loop over the events is through
FitHeartrate ==
  /\ pc = "fit_events"
  /\ fit.i > Len(DataGet(fit.data, "event"))
  /\ IF "heart_rate" \in DOMAIN fit.recordings
     THEN fit' = [fit EXCEPT
                    !.heartrate_mean = Some(NanMeanInt(fit.recordings["heart_rate"])),
                    !.heartrate_median = Some(NanMedianInt(fit.recordings["heart_rate"]))]
     ELSE fit' = [fit EXCEPT !.heartrate_mean = None, !.heartrate_median = None]
  /\ pc' = "fit_duration"
  /\ UNCHANGED <<api, path, called, hrm, rr, ret, exc>>

\* lines 98-125
FitReturn ==
  /\ pc = "fit_duration"
  /\ LET summary == FitSummary(fit.recordings)
     IN  IF ~summary.ok
         THEN /\ pc' = "raised"
              /\ exc' = Raise("KeyError", summary.error)
              /\ ret' = ret
         ELSE /\ pc' = "returned"
              /\ exc' = exc
              /\ ret' = Some([data |-> FitData(fit, summary.duration, summary.distance),
                              recordings |-> fit.recordings])
  /\ UNCHANGED <<api, path, called, fit, hrm, rr>>

\* lines 237-258: seed the mapping and open the file
HrmOpen ==
  /\ pc = "load_hrmonitorapp"
  /\ \E file_ \in HrmFiles :
       hrm' = [hrm EXCEPT !.file_ = file_, !.pos = 1, !.data = HrmData]
  /\ pc' = "hrm_scan"
  /\ UNCHANGED <<api, path, called, fit, rr, ret, exc>>

\* lines 259-267: one iteration of the loop over the lines of the file
HrmLine ==
  /\ pc = "hrm_scan"
  /\ hrm.pos <= Len(hrm.file_)
  /\ LET line == Strip(hrm.file_[hrm.pos])
         section == _get_lines_until_blank(hrm.file_, hrm.pos + 1)
     IN  IF line = (* "{Statistics}" *) <<"{", "S", "t", "a", "t", "i", "s", "t", "i", "c", "s", "}">>
         THEN LET stats == _hrmonitorapp_parse_stats(section.lines)
              IN  IF stats.ok
                  THEN /\ hrm' = [hrm EXCEPT !.pos = section.pos,
                                             !.data = Update(hrm.data, stats.value)]
                       /\ pc' = pc
                       /\ exc' = exc
                  ELSE /\ hrm' = [hrm EXCEPT !.pos = section.pos]
                       /\ pc' = "raised"
                       /\ exc' = Raise(stats.error, "_hrmonitorapp_parse_stats")
         ELSE IF line = (* "{History}" *) <<"{", "H", "i", "s", "t", "o", "r", "y", "}">>
         THEN LET recordings == _hrmonitorapp_parse_recordings(section.lines)
              IN  IF recordings.ok
                  THEN /\ hrm' = [hrm EXCEPT !.pos = section.pos,
                                             !.recordings = recordings.value,
                                             !.bound = TRUE]
                       /\ pc' = pc
                       /\ exc' = exc
                  ELSE /\ hrm' = [hrm EXCEPT !.pos = section.pos]
                       /\ pc' = "raised"
                       /\ exc' = Raise(recordings.error, "_hrmonitorapp_parse_recordings")
         ELSE /\ hrm' = [hrm EXCEPT !.pos = hrm.pos + 1]
              /\ pc' = pc
              /\ exc' = exc
  /\ UNCHANGED <<api, path, called, fit, rr, ret>>

\* line 269, at the end of the file: recordings is a local that only the
\* {History} branch assigns
HrmReturn ==
  /\ pc = "hrm_scan"
  /\ hrm.pos > Len(hrm.file_)
  /\ IF hrm.bound
     THEN /\ pc' = "returned"
          /\ ret' = Some([data |-> hrm.data, recordings |-> hrm.recordings])
          /\ exc' = exc
     ELSE /\ pc' = "raised"
          /\ ret' = ret
          /\ exc' = Raise("UnboundLocalError", "recordings")
  /\ UNCHANGED <<api, path, called, fit, hrm, rr>>

\* lines 156-165: the dispatch of load_rr
LoadRR ==
  /\ pc = "call"
  /\ api = "load_rr"
  /\ IF Lower(PathSuffix(path)) = (* ".fit" *) <<".", "f", "i", "t">>
     THEN /\ pc' = "load_rr_from_fit"
          /\ called' = Append(called, "load_rr_from_fit")
          /\ exc' = exc
     ELSE IF Lower(PathSuffix(path)) = (* ".csv" *) <<".", "c", "s", "v">>
     THEN /\ pc' = "load_rr_from_csv"
          /\ called' = Append(called, "load_rr_from_csv")
          /\ exc' = exc
     ELSE /\ pc' = "raised"
          /\ called' = called
          /\ exc' = Raise("ValueError", "input file not supported")
  /\ UNCHANGED <<api, path, fit, hrm, rr, ret>>

\* lines 137-149
RRFromFit ==
  /\ pc = "load_rr_from_fit"
  /\ \E messages \in HrvStreams :
       /\ rr' = [rr EXCEPT !.messages = messages]
       /\ ret' = Some(load_rr_from_fit(messages))
  /\ pc' = "returned"
  /\ UNCHANGED <<api, path, called, fit, hrm, exc>>

\* lines 152-153, 160-162
RRFromCsv ==
  /\ pc = "load_rr_from_csv"
  /\ \E values \in CsvFiles :
       /\ rr' = [rr EXCEPT !.values = values]
       /\ ret' = Some(load_rr_from_csv(values))
  /\ pc' = "returned"
  /\ UNCHANGED <<api, path, called, fit, hrm, exc>>

Next ==
  \/ Load
  \/ FitDecode
  \/ FitSport
  \/ FitFileId
  \/ FitEvent
  \/ FitHeartrate
  \/ FitReturn
  \/ HrmOpen
  \/ HrmLine
  \/ HrmReturn
  \/ LoadRR
  \/ RRFromFit
  \/ RRFromCsv


Spec == Init /\ [][Next]_vars

(***************************************************************************)
(* Properties                                                              *)
(***************************************************************************)
\* the value of the field of that name in a message of the stream
FieldOf(message, name) ==
  message.fields[CHOOSE i \in DOMAIN message.fields : message.fields[i].name = name].value

FieldNames(message) == {message.fields[i].name : i \in DOMAIN message.fields}

\* the messages of one type, as they are in the decoded stream
StreamOf(type) ==
  LET OfType(m) == m.name = type
  IN  SelectSeq(fit.messages, OfType)

InFit == called = <<"load_fit">> /\ pc # "load_fit"

InHrm == called = <<"load_hrmonitorapp">> /\ pc # "load_hrmonitorapp"

\* C1: whenever load returns, for a FIT file and for an HRMonitorApp file, the
\* activity metadata has exactly the keys of the canonical schema, and the
\* values the HRMonitorApp format cannot supply are None.
C1_SchemaKeys ==
  (api = "load" /\ pc = "returned") =>
    /\ DOMAIN ret[1].data = DOMAIN ACTIVITY_SCHEMA
    /\ called = <<"load_hrmonitorapp">> =>
         \A k \in DOMAIN ACTIVITY_SCHEMA \ {"datetime_start", "datetime_end", "duration"} :
           ret[1].data[k] = None

\* C2: load dispatches on the name alone: suffix .fit (any case) calls
\* load_fit; suffix .csv (any case) with a name starting with user_hr_data_
\* calls load_hrmonitorapp; every other path raises the unsupported-format
\* ValueError and calls neither.
C2_Dispatch ==
  (api = "load" /\ pc # "call") =>
    LET suffix == Lower(PathSuffix(path))
        prefixed == StartsWith(PathName(path), (* "user_hr_data_" *) <<"u", "s", "e", "r", "_", "h", "r", "_", "d", "a", "t", "a", "_">>)
        Unsupported ==
          /\ called = <<>>
          /\ pc = "raised"
          /\ exc = Raise("ValueError", "unsupported activity file format")
          /\ ret = None
    IN  /\ suffix = (* ".fit" *) <<".", "f", "i", "t">> => called = <<"load_fit">>
        /\ (suffix = (* ".csv" *) <<".", "c", "s", "v">> /\ prefixed) => called = <<"load_hrmonitorapp">>
        /\ (suffix # (* ".fit" *) <<".", "f", "i", "t">> /\ ~(suffix = (* ".csv" *) <<".", "c", "s", "v">> /\ prefixed)) => Unsupported
        /\ path \in {(* "rr.csv" *) <<"r", "r", ".", "c", "s", "v">>, (* "User_hr_data_1.csv" *) <<"U", "s", "e", "r", "_", "h", "r", "_", "d", "a", "t", "a", "_", "1", ".", "c", "s", "v">>, (* "user_hr_data_/a.csv" *) <<"u", "s", "e", "r", "_", "h", "r", "_", "d", "a", "t", "a", "_", "/", "a", ".", "c", "s", "v">>} => Unsupported
        /\ path = (* "run/B.FiT" *) <<"r", "u", "n", "/", "B", ".", "F", "i", "T">> => called = <<"load_fit">>
        /\ path = (* "user_hr_data_2.CSV" *) <<"u", "s", "e", "r", "_", "h", "r", "_", "d", "a", "t", "a", "_", "2", ".", "C", "S", "V">> => called = <<"load_hrmonitorapp">>

\* a .csv file whose name lacks the prefix has been rejected
C2_Witness ==
  /\ api = "load"
  /\ path = (* "user_hr_data_/a.csv" *) <<"u", "s", "e", "r", "_", "h", "r", "_", "d", "a", "t", "a", "_", "/", "a", ".", "c", "s", "v">>
  /\ pc = "raised"
  /\ called = <<>>

HasHistory(file_) == \E i \in DOMAIN file_ : Strip(file_[i]) = (* "{History}" *) <<"{", "H", "i", "s", "t", "o", "r", "y", "}">>

\* the lines of the {History} section of a file
HistoryLines(file_) ==
  _get_lines_until_blank(
    file_, 1 + CHOOSE i \in DOMAIN file_ : Strip(file_[i]) = (* "{History}" *) <<"{", "H", "i", "s", "t", "o", "r", "y", "}">>).lines

\* C3: whenever load returns, all channels of the recordings have the same
\* length (in the HRMonitorApp path the number of data rows); in the FIT path
\* every channel has one entry per record message, the field's value where
\* the message has the field and NaN where it lacks it.
C3_ChannelsAligned ==
  /\ (api = "load" /\ pc = "returned") =>
       \A a, b \in DOMAIN ret[1].recordings :
         Len(ret[1].recordings[a]) = Len(ret[1].recordings[b])
  /\ (InHrm /\ pc = "returned") =>
       \A c \in DOMAIN ret[1].recordings :
         Len(ret[1].recordings[c]) = Len(HistoryLines(hrm.file_)) - 1
  /\ InFit =>
       LET records == StreamOf("record")
       IN  \A c \in DOMAIN fit.recordings :
             /\ Len(fit.recordings[c]) = Len(records)
             /\ \A i \in DOMAIN records :
                  fit.recordings[c][i] =
                    IF c \in FieldNames(records[i])
                    THEN Some(FieldOf(records[i], c)) ELSE NaN

\* load_fit has returned a heart_rate channel in which one record message
\* supplied a value and another did not
C3_Witness ==
  /\ pc = "returned"
  /\ called = <<"load_fit">>
  /\ "heart_rate" \in DOMAIN ret[1].recordings
  /\ \E i, j \in DOMAIN ret[1].recordings["heart_rate"] :
       /\ ret[1].recordings["heart_rate"][i] = NaN
       /\ ret[1].recordings["heart_rate"][j] # NaN

\* C4: for a file without a {History} section, load_hrmonitorapp (when the
\* {Statistics} section, if any, is well-formed) returns with empty recordings.
C4_NoHistoryReturnsEmpty ==
  ( /\ InHrm
    /\ ~HasHistory(hrm.file_)
    /\ hrm.pos > Len(hrm.file_)
    /\ pc # "hrm_scan"
    /\ ~(pc = "raised" /\ exc[1].what = "_hrmonitorapp_parse_stats") ) =>
    /\ pc = "returned"
    /\ ret[1].recordings = <<>>

\* C5: device_model is the garmin_product of the first file_id message when
\* its manufacturer is "garmin" and None for every other manufacturer, and a
\* file of another manufacturer never fails over garmin_product.
C5_DeviceModel ==
  (InFit /\ StreamOf("file_id") # <<>>) =>
    LET first == StreamOf("file_id")[1]
        garmin == FieldOf(first, "manufacturer") = "garmin"
    IN  /\ pc \in {"fit_events", "fit_duration", "returned"} =>
             /\ fit.device_model # None => garmin
             /\ garmin => fit.device_model = Some(FieldOf(first, "garmin_product"))
             /\ ~garmin => fit.device_model = None
        /\ pc = "returned" => ret[1].data.device_model = fit.device_model
        /\ (~garmin /\ pc = "raised") => exc # Raise("KeyError", "garmin_product")

\* load_fit has returned None as the device_model of a file whose first
\* file_id message is of another manufacturer and carries a garmin_product
C5_Witness ==
  /\ pc = "returned"
  /\ called = <<"load_fit">>
  /\ FieldOf(StreamOf("file_id")[1], "manufacturer") = "suunto"
  /\ "garmin_product" \in FieldNames(StreamOf("file_id")[1])
  /\ ret[1].data.device_model = None

\* the {Statistics} section with a well-formed date and start time
GoodStats(d) == StatsLines((* "01/02/23" *) <<"0", "1", "/", "0", "2", "/", "2", "3">>, (* "10:00:00" *) <<"1", "0", ":", "0", "0", ":", "0", "0">>, d)

\* the scan is past the {Statistics} section, whose duration is d
StatsDone(d) ==
  /\ InHrm
  /\ Len(hrm.file_) >= 8
  /\ SubSeq(hrm.file_, 3, 8) = GoodStats(d)
  /\ hrm.pos >= 9

StatsFailed(type) ==
  /\ pc = "raised"
  /\ exc = Raise(type, "_hrmonitorapp_parse_stats")
  /\ ret = None

StatsAccepted(parts) ==
  /\ ~(pc = "raised" /\ exc[1].what = "_hrmonitorapp_parse_stats")
  /\ hrm.data.duration =
       Some(DigitsValue(parts[1]) * 3600 + DigitsValue(parts[2]) * 60 + DigitsValue(parts[3]))

\* C6, as stated: a duration of exactly 3 colon-separated integer components
\* is accepted whatever its length and parsed to hh*3600+mm*60+ss; one with
\* another number of components fails.
C6_ThreeComponentsAccepted ==
  \A d \in DurationPool :
    StatsDone(d) =>
      LET parts == Split(d, ":")
      IN  /\ (Len(parts) = 3 /\ \A i \in DOMAIN parts : IsDigits(parts[i])) =>
               StatsAccepted(parts)
          /\ Len(parts) # 3 => StatsFailed("AssertionError")

\* C6, amended: a duration is accepted, and parsed to hh*3600+mm*60+ss,
\* only when it is 8 characters long and has exactly 3 colon-separated
\* integer components; any other length or component count fails with the
\* AssertionError, and a non-integer component with the ValueError.
C6_EightCharacters ==
  \A d \in DurationPool :
    StatsDone(d) =>
      LET parts == Split(d, ":")
      IN  IF Len(d) # 8 \/ Len(parts) # 3 THEN StatsFailed("AssertionError")
          ELSE IF \A i \in DOMAIN parts : IsDigits(parts[i]) THEN StatsAccepted(parts)
          ELSE StatsFailed("ValueError")

\* the unpadded duration 1:2:3 has been rejected
C6_Witness ==
  /\ StatsDone((* "1:2:3" *) <<"1", ":", "2", ":", "3">>)
  /\ StatsFailed("AssertionError")

NoRecords == StreamOf("record") = <<>>

\* C7: a FIT stream without any record message makes load_fit raise; it
\* never returns a pair.
C7_NoRecordsFails ==
  (InFit /\ NoRecords) =>
    /\ pc # "returned"
    /\ ret = None
    /\ pc \in {"fit_sport", "fit_file_id", "fit_events", "fit_duration", "raised"}
    /\ pc = "raised" => exc # None

\* a stream with sport, file_id and events but no record message has failed
\* at the lookup of the timestamp channel
C7_Witness ==
  /\ InFit
  /\ NoRecords
  /\ pc = "raised"
  /\ exc = Raise("KeyError", "timestamp")

\* the timer events of a kind among the first n event messages
TimerEvents(event_type, n) ==
  {i \in 1..n : /\ FieldOf(StreamOf("event")[i], "event") = "timer"
                /\ FieldOf(StreamOf("event")[i], "event_type") = event_type}

Lowest(S) == CHOOSE i \in S : \A j \in S : i <= j

Highest(S) == CHOOSE i \in S : \A j \in S : j <= i

TimestampAt(S, i) ==
  IF S = {} THEN None ELSE Some(FieldOf(StreamOf("event")[i], "timestamp"))

\* the scan has gone through the first fit.i - 1 event messages
Scanned == InFit /\ fit.i >= 1

\* C8, as stated: after any number of scanned events, datetime_start is the
\* timestamp of the first timer/start event scanned and datetime_end that of
\* the first timer/stop_all event scanned.
C8_FirstMatchWins ==
  Scanned =>
    LET starts == TimerEvents("start", fit.i - 1)
        stops == TimerEvents("stop_all", fit.i - 1)
    IN  /\ fit.datetime_start = TimestampAt(starts, Lowest(starts))
        /\ fit.datetime_end = TimestampAt(stops, Lowest(stops))

\* C8, amended: after any number of scanned events, datetime_start is the
\* timestamp of the last timer/start event scanned and datetime_end that of
\* the last timer/stop_all event scanned (a later matching event overwrites
\* the value); other events change neither.
C8_LastMatchWins ==
  Scanned =>
    LET starts == TimerEvents("start", fit.i - 1)
        stops == TimerEvents("stop_all", fit.i - 1)
    IN  /\ fit.datetime_start = TimestampAt(starts, Highest(starts))
        /\ fit.datetime_end = TimestampAt(stops, Highest(stops))

\* two timer/start events have been scanned and the second one's timestamp
\* is the datetime_start
C8_Witness ==
  /\ Scanned
  /\ Cardinality(TimerEvents("start", fit.i - 1)) >= 2
  /\ fit.datetime_start =
       Some(FieldOf(StreamOf("event")[Highest(TimerEvents("start", fit.i - 1))], "timestamp"))
  /\ fit.datetime_start #
       Some(FieldOf(StreamOf("event")[Lowest(TimerEvents("start", fit.i - 1))], "timestamp"))

\* C9: load_hrmonitorapp returns only when every data row of the {History}
\* section has as many columns as the header row; a section with a row of
\* another column count makes it raise.
C9_RowsMatchHeader ==
  (InHrm /\ HasHistory(hrm.file_) /\ pc \in {"returned", "raised"}) =>
    LET lines == HistoryLines(hrm.file_)
        Mismatch ==
          \E i \in DOMAIN lines : Len(Split(lines[i], ",")) # Len(Split(lines[1], ","))
    IN  /\ pc = "returned" => ~Mismatch
        /\ (Mismatch /\ ~(pc = "raised" /\ exc[1].what = "_hrmonitorapp_parse_stats")) =>
             /\ pc = "raised"
             /\ exc[1].type = "ValueError"

\* the positions (message, field, index) of the readings of the hrv messages
\* that are not None
HrvMessages ==
  LET OfType(m) == m.name = "hrv"
  IN  SelectSeq(rr.messages, OfType)

Reading(p) == HrvMessages[p[1]].fields[p[2]].value[p[3]]

ReadingPositions ==
  { p \in UNION { UNION { { <<m, f, k>> : k \in DOMAIN HrvMessages[m].fields[f].value }
                          : f \in DOMAIN HrvMessages[m].fields }
                  : m \in DOMAIN HrvMessages } :
      Reading(p) # None }

LexLeq(p, q) ==
  \/ p[1] < q[1]
  \/ p[1] = q[1] /\ p[2] < q[2]
  \/ p[1] = q[1] /\ p[2] = q[2] /\ p[3] <= q[3]

Rank(p) == Cardinality({q \in ReadingPositions : LexLeq(q, p)})

====
